---- MODULE Spec2Model ----
\* Model of package zfs (jmcgover/zfs_exporter): the three query functions that
\* run an external zpool/zfs command, read its two pipes, wait for it and decode
\* its JSON output with encoding/json, together with the slog projections.
EXTENDS Integers, Sequences, FiniteSets, TLC

\* ---------------------------------------------------------------- bounds

\* Capacity of one OS pipe, in the model's units (stands for the 64KB pipe buffer).
PipeCap == 2

\* Longest diagnostic text a child writes, in characters.
MaxErrLen == 3

\* ------------------------------------------------------- JSON documents

\* A JSON integer is kept as four 16-bit limbs, most significant first, so the
\* whole unsigned 64-bit range is representable.
Num(a, b, c, d) == <<a, b, c, d>>
Small(k) == Num(0, 0, 0, k)
MaxInt64 == Num(32767, 65535, 65535, 65535)
TwoTo63 == Num(32768, 0, 0, 0)
MaxUint64 == Num(65535, 65535, 65535, 65535)

JNull == [t |-> "null"]
JStr(s) == [t |-> "str", s |-> s]
JNum(n) == [t |-> "num", n |-> n]
JArr == [t |-> "arr"]
JObj(f) == [t |-> "obj", f |-> f]
NoFields == <<>>

\* The bytes a child wrote to its primary output: nothing at all, bytes that are
\* not JSON syntax, or the text of one JSON value.
EmptyBytes == [syntax |-> "empty"]
InvalidBytes == [syntax |-> "invalid"]
JsonBytes(v) == [syntax |-> "json", v |-> v]

\* ------------------------------------------------------------- Go types

TString == [k |-> "string"]
TInt == [k |-> "int"]
TInt64 == [k |-> "int64"]
TStruct(S) == [k |-> "struct", of |-> S]
TMap(S) == [k |-> "map", of |-> S]

\* One struct field: its Go name, its `json:"..."` tag ("" when untagged), its type.
F(go, tag, typ) == [go |-> go, tag |-> tag, typ |-> typ]

VdevStatusT ==
  << F("Name", "name", TString), F("VdevType", "vdev_type", TString),
     F("Guid", "guid", TInt64), F("Path", "path", TString),
     F("PhysPath", "phys_path", TString), F("Devid", "devid", TString),
     F("Class", "class", TString), F("State", "state", TString),
     F("Parent", "parent", TString), F("RepDevSize", "rep_dev_size", TInt),
     F("PhysSpace", "phys_space", TInt), F("ReadErrors", "read_errors", TInt),
     F("WriteErrors", "write_errors", TInt),
     F("ChecksumErrors", "checksum_errors", TInt),
     F("SlowIos", "slow_ios", TInt), F("Vdevs", "vdevs", TMap("VdevStatusT")) >>

ScanStatsT ==
  << F("Function", "function", TString), F("State", "state", TString),
     F("StartTime", "start_time", TInt), F("EndTime", "end_time", TInt),
     F("ToExamine", "to_examine", TInt), F("Examined", "examined", TInt),
     F("Skipped", "skipped", TInt), F("Processed", "processed", TInt),
     F("Errors", "errors", TInt), F("BytesPerScan", "bytes_per_scan", TInt),
     F("PassStart", "pass_start", TInt), F("ScrubPause", "scrub_pause", TInt),
     F("ScrubSpentPaused", "scrub_spent_paused", TInt),
     F("IssuedBytesPerScan", "issued_bytes_per_scan", TInt),
     F("Issued", "issued", TInt) >>

PoolStatusT ==
  << F("Name", "name", TString), F("State", "state", TString),
     F("PoolGuid", "pool_guid", TInt64), F("Txg", "txg", TInt),
     F("SpaVersion", "spa_version", TInt), F("ZplVersion", "zpl_version", TInt),
     F("Status", "status", TString), F("Action", "action", TString),
     F("Moreinfo", "moreinfo", TString),
     F("ScanStats", "scan_stats", TStruct("ScanStatsT")),
     F("Vdevs", "vdevs", TMap("VdevStatusT")) >>

ZpoolStatusOutputT ==
  << F("OutputVersion", "output_version", TStruct("ZFSCommandOutputVersionT")),
     F("Pools", "pools", TMap("PoolStatusT")) >>

ZFSCommandOutputVersionT ==
  << F("Command", "command", TString), F("Major", "major", TInt),
     F("Minor", "minor", TInt) >>

ZFSVersionT ==
  << F("Userland", "userland", TString), F("Kernel", "kernel", TString) >>

ZFSVersionOutputT ==
  << F("OutputVersion", "output_version", TStruct("ZFSCommandOutputVersionT")),
     F("ZFSVersion", "zfs_version", TStruct("ZFSVersionT")) >>

\* The untagged declarations of version.go.
version_OutputVersionT ==
  << F("Command", "", TString), F("Major", "", TInt), F("Minor", "", TInt) >>

version_ZFSVersionT ==
  << F("Userland", "", TString), F("Kernel", "", TString) >>

version_ZFSVersionOutputT ==
  << F("OutputVersion", "", TStruct("version.OutputVersionT")),
     F("ZFSVersion", "", TStruct("version.ZFSVersionT")) >>

\* The declarations of the earlier GetZFSVersion: lower-case, untagged fields.
OutputVersion ==
  << F("command", "", TString), F("major", "", TInt64), F("minor", "", TInt64) >>

ZFSVersion ==
  << F("userland", "", TString), F("kernel", "", TString) >>

ZFSVersionOutput ==
  << F("output_version", "", TStruct("OutputVersion")),
     F("zfs_version", "", TStruct("ZFSVersion")) >>

Fields(S) ==
  CASE S = "VdevStatusT" -> VdevStatusT
    [] S = "ScanStatsT" -> ScanStatsT
    [] S = "PoolStatusT" -> PoolStatusT
    [] S = "ZpoolStatusOutputT" -> ZpoolStatusOutputT
    [] S = "ZFSCommandOutputVersionT" -> ZFSCommandOutputVersionT
    [] S = "ZFSVersionT" -> ZFSVersionT
    [] S = "ZFSVersionOutputT" -> ZFSVersionOutputT
    [] S = "version.OutputVersionT" -> version_OutputVersionT
    [] S = "version.ZFSVersionT" -> version_ZFSVersionT
    [] S = "version.ZFSVersionOutputT" -> version_ZFSVersionOutputT
    [] S = "OutputVersion" -> OutputVersion
    [] S = "ZFSVersion" -> ZFSVersion
    [] S = "ZFSVersionOutput" -> ZFSVersionOutput

\* ------------------------------------------------- encoding/json decoding

\* Go exports an identifier that begins with an upper-case letter; encoding/json
\* neither reads nor writes an unexported field.
Exported(go) ==
  go \notin {"command", "major", "minor", "userland", "kernel",
             "output_version", "zfs_version"}

\* Case folding of the names that occur as Go field names or document keys
\* (what bytes.EqualFold compares); every other name of the model is lower-case.
Fold(s) ==
  CASE s = "OutputVersion" -> "outputversion"
    [] s = "ZFSVersion" -> "zfsversion"
    [] s = "Userland" -> "userland"
    [] s = "Kernel" -> "kernel"
    [] s = "Command" -> "command"
    [] s = "Major" -> "major"
    [] s = "Minor" -> "minor"
    [] OTHER -> s

\* The name encoding/json matches a field by: its tag, else its Go name.
JsonName(fd) == IF fd.tag = "" THEN fd.go ELSE fd.tag

\* The keys of object obj that select field fd: the exact name first, otherwise
\* a case-insensitive match.
KeysFor(fd, obj) ==
  IF JsonName(fd) \in DOMAIN obj
    THEN {JsonName(fd)}
    ELSE {key \in DOMAIN obj : Fold(key) = Fold(JsonName(fd))}

FitsInt64(n) == n[1] < 32768

FieldOf(S, g) == Fields(S)[CHOOSE i \in DOMAIN Fields(S) : Fields(S)[i].go = g]
GoNames(S) == {Fields(S)[i].go : i \in DOMAIN Fields(S)}

\* The zero value of a Go type (a nil map has no entries).
RECURSIVE Zero(_)
Zero(typ) ==
  CASE typ.k = "string" -> ""
    [] typ.k \in {"int", "int64"} -> Small(0)
    [] typ.k = "map" -> <<>>
    [] typ.k = "struct" -> [g \in GoNames(typ.of) |-> Zero(FieldOf(typ.of, g).typ)]

\* The key of object obj decoded into field g of struct S, or "" when there is
\* none: an unexported field is never set, an unknown key never used.
KeyOf(S, g, obj) ==
  LET ks == KeysFor(FieldOf(S, g), obj)
  IN  IF Exported(g) /\ ks /= {} THEN CHOOSE key \in ks : TRUE ELSE ""

\* Whether a JSON value has the JSON type a Go type takes (null is taken by all
\* and leaves the Go value as it is).
Fits(j, typ) ==
  CASE typ.k = "string" -> j.t = "str"
    [] typ.k \in {"int", "int64"} -> j.t = "num" /\ FitsInt64(j.n)
    [] typ.k \in {"map", "struct"} -> j.t = "obj"

\* json.Unmarshal's decoding of one JSON value into a fresh Go value of type typ.
\* DecodeErr: some value met on the way does not fit its Go type (a wrong JSON
\* type, or a number outside the field's range): an UnmarshalTypeError.
RECURSIVE DecodeErr(_, _)
DecodeErr(j, typ) ==
  CASE j.t = "null" -> FALSE
    [] j.t /= "null" /\ ~Fits(j, typ) -> TRUE
    [] j.t /= "null" /\ Fits(j, typ) /\ typ.k \in {"string", "int", "int64"} -> FALSE
    [] j.t /= "null" /\ Fits(j, typ) /\ typ.k = "map" ->
         \E key \in DOMAIN j.f : DecodeErr(j.f[key], TStruct(typ.of))
    [] j.t /= "null" /\ Fits(j, typ) /\ typ.k = "struct" ->
         \E g \in GoNames(typ.of) :
            /\ KeyOf(typ.of, g, j.f) /= ""
            /\ DecodeErr(j.f[KeyOf(typ.of, g, j.f)], FieldOf(typ.of, g).typ)

\* DecodeVal: the Go value left behind; a value that does not fit is skipped and
\* its field keeps the zero value, unknown keys are ignored.
RECURSIVE DecodeVal(_, _)
DecodeVal(j, typ) ==
  CASE j.t = "null" -> Zero(typ)
    [] j.t /= "null" /\ ~Fits(j, typ) -> Zero(typ)
    [] j.t /= "null" /\ Fits(j, typ) /\ typ.k = "string" -> j.s
    [] j.t /= "null" /\ Fits(j, typ) /\ typ.k \in {"int", "int64"} -> j.n
    [] j.t /= "null" /\ Fits(j, typ) /\ typ.k = "map" ->
         [key \in DOMAIN j.f |-> DecodeVal(j.f[key], TStruct(typ.of))]
    [] j.t /= "null" /\ Fits(j, typ) /\ typ.k = "struct" ->
         [g \in GoNames(typ.of) |->
            IF KeyOf(typ.of, g, j.f) /= ""
              THEN DecodeVal(j.f[KeyOf(typ.of, g, j.f)], FieldOf(typ.of, g).typ)
              ELSE Zero(FieldOf(typ.of, g).typ)]

\* json.Unmarshal(data, &o) for a zero o of struct type S: the syntax check of
\* the whole input first, then the decoding; [err, val] with err "" on success.
Unmarshal(data, S) ==
  CASE data.syntax = "empty" -> [err |-> "SyntaxError", val |-> Zero(TStruct(S))]
    [] data.syntax = "invalid" -> [err |-> "SyntaxError", val |-> Zero(TStruct(S))]
    [] data.syntax = "json" ->
         [err |-> IF DecodeErr(data.v, TStruct(S)) THEN "UnmarshalTypeError" ELSE "",
          val |-> DecodeVal(data.v, TStruct(S))]

\* ------------------------------------------------------ slog projections

Group(attrs) == [kind |-> "group", attrs |-> attrs]
Bytes(data) == [kind |-> "bytes", data |-> data]

VdevStatusT_LogValue(o) ==
  Group([name |-> o.Name, vdev_type |-> o.VdevType, guid |-> o.Guid,
         path |-> o.Path, phys_path |-> o.PhysPath, devid |-> o.Devid,
         class |-> o.Class, state |-> o.State, parent |-> o.Parent,
         rep_dev_size |-> o.RepDevSize, phys_space |-> o.PhysSpace,
         read_errors |-> o.ReadErrors, write_errors |-> o.WriteErrors,
         checksum_errors |-> o.ChecksumErrors, slow_ios |-> o.SlowIos,
         num_vdevs |-> Cardinality(DOMAIN o.Vdevs)])

PoolStatusT_LogValue(o) ==
  Group([name |-> o.Name, state |-> o.State, pool_guid |-> o.PoolGuid,
         txg |-> o.Txg, spa_version |-> o.SpaVersion,
         zpl_version |-> o.ZplVersion, status |-> o.Status,
         action |-> o.Action, more_info |-> o.Moreinfo,
         num_vdevs |-> Cardinality(DOMAIN o.Vdevs)])

ZpoolStatusOutputT_LogValue(o) ==
  Group(("output_version.command" :> o.OutputVersion.Command)
        @@ ("output_version.major" :> o.OutputVersion.Major)
        @@ ("output_version.minor" :> o.OutputVersion.Minor)
        @@ ("num_pools" :> Cardinality(DOMAIN o.Pools)))

ZFSVersionOutputT_LogValue(o) ==
  Group(("output_version.command" :> o.OutputVersion.Command)
        @@ ("output_version.major" :> o.OutputVersion.Major)
        @@ ("output_version.minor" :> o.OutputVersion.Minor)
        @@ ("zfs_version.userland" :> o.ZFSVersion.Userland)
        @@ ("zfs_version.kernel" :> o.ZFSVersion.Kernel))

version_ZFSVersionOutputT_LogValue(o) ==
  Group(("output_version.command" :> o.OutputVersion.Command)
        @@ ("output_version.major" :> o.OutputVersion.Major)
        @@ ("output_version.minor" :> o.OutputVersion.Minor)
        @@ ("zfs_version.userland" :> o.ZFSVersion.Userland)
        @@ ("zfs_version.kernel" :> o.ZFSVersion.Kernel))

\* One log record: logger.Debug(msg, key, value).
Record(msg, key, val) == [msg |-> msg, key |-> key, val |-> val]

\* ------------------------------------------------- the query functions

Functions ==
  {"ZpoolStatusViaJSON", "GetZFSVersionViaJSON", "GetZFSVersion", "GetZFSVersion_0"}

\* cmd.String() of the command each function builds.
CmdString(f) ==
  CASE f = "ZpoolStatusViaJSON" -> "zpool status --json --json-int"
    [] f = "GetZFSVersionViaJSON" -> "zfs version --json"
    [] f = "GetZFSVersion" -> "zpool --json --json-int list -Ho name"
    [] f = "GetZFSVersion_0" -> "zpool --json --json-int list -Ho name"

\* The struct type of the variable o each function unmarshals into.
Target(f) ==
  CASE f = "ZpoolStatusViaJSON" -> "ZpoolStatusOutputT"
    [] f = "GetZFSVersionViaJSON" -> "ZFSVersionOutputT"
    [] f = "GetZFSVersion" -> "version.ZFSVersionOutputT"
    [] f = "GetZFSVersion_0" -> "ZFSVersionOutput"

\* What each function returns from the decoded o.
Payload(f, o) ==
  CASE f = "ZpoolStatusViaJSON" -> o.Pools
    [] f = "GetZFSVersionViaJSON" -> o.ZFSVersion.Userland
    [] f = "GetZFSVersion" -> o.ZFSVersion.Userland
    [] f = "GetZFSVersion_0" -> o.zfs_version.userland

\* logger.Debug("ZFS Command Output", "stdout", stdo), in the functions that log it.
DebugStdout(f, data) ==
  IF f \in {"ZpoolStatusViaJSON", "GetZFSVersionViaJSON"}
    THEN << Record("ZFS Command Output", "stdout", Bytes(data)) >>
    ELSE << >>

\* The logger.Debug of the decoded o, in the functions that log it.
DebugParsed(f, o) ==
  CASE f = "ZpoolStatusViaJSON" ->
         << Record("Zpool Status Output Parsed", "output", ZpoolStatusOutputT_LogValue(o)) >>
    [] f = "GetZFSVersionViaJSON" ->
         << Record("ZFS Command Output Parsed", "output", ZFSVersionOutputT_LogValue(o)) >>
    [] f = "GetZFSVersion" ->
         << Record("ZFS Command Output", "output", version_ZFSVersionOutputT_LogValue(o)) >>
    [] f = "GetZFSVersion_0" -> << >>

\* The errors the functions build with fmt.Errorf: the format string, the command
\* line, the diagnostic text (<<>> where the format has no place for it) and the
\* error wrapped with %w.
NoError == [form |-> "nil"]
StartError(f, e) ==
  [form |-> "failed to start command '%s': %w", cmd |-> CmdString(f),
   output |-> << >>, wrapped |-> e]
ReadError(f, e) ==
  [form |-> "failed to read output of '%s'; output: (%w)", cmd |-> CmdString(f),
   output |-> << >>, wrapped |-> e]
WaitError(f, text, e) ==
  [form |-> "failed to execute command '%s'; output: '%s' (%w)", cmd |-> CmdString(f),
   output |-> text, wrapped |-> e]
UnmarshalError(f, e) ==
  [form |-> "failed to read output of '%s'; output: (%w)", cmd |-> CmdString(f),
   output |-> << >>, wrapped |-> e]
PipeError(e) == [form |-> "%v", cmd |-> "", output |-> << >>, wrapped |-> e]

Nil == [nil |-> TRUE]
Ptr(v) == [nil |-> FALSE, v |-> v]

\* strings.TrimSpace on a text kept as a sequence of characters.
IsSpace(c) == c \in {" ", "\t", "\n", "\r"}
RECURSIVE TrimLeft(_)
TrimLeft(text) ==
  IF text /= << >> /\ IsSpace(Head(text)) THEN TrimLeft(Tail(text)) ELSE text
RECURSIVE TrimRight(_)
TrimRight(text) ==
  IF text /= << >> /\ IsSpace(text[Len(text)])
    THEN TrimRight(SubSeq(text, 1, Len(text) - 1)) ELSE text
TrimSpace_LeftOnly(text) == TrimLeft(text)
TrimSpace(text) == TrimRight(TrimLeft(text))

\* -------------------------------------------- what a child may write

\* A vdev object with every field of the wire format; kids is its "vdevs" value.
VdevJ(name, typ, guid, parent, n, kids) ==
  JObj([name |-> JStr(name), vdev_type |-> JStr(typ), guid |-> JNum(guid),
        path |-> JStr("/dev/disk/by-id/ata-1"), phys_path |-> JStr("pci-0000:00:1f.2"),
        devid |-> JStr("ata-1-part1"), class |-> JStr("normal"),
        state |-> JStr("ONLINE"), parent |-> JStr(parent),
        rep_dev_size |-> JNum(Num(0, 0, 2, n)), phys_space |-> JNum(Num(0, 0, 3, n)),
        read_errors |-> JNum(Small(n)), write_errors |-> JNum(Small(n + 1)),
        checksum_errors |-> JNum(Small(n + 2)), slow_ios |-> JNum(Small(n + 3)),
        vdevs |-> kids])

\* A leaf device as the tool writes it: no "vdevs" key, no error counters, and a
\* key this package does not know.
LeafJ(name, guid, parent) ==
  JObj([name |-> JStr(name), vdev_type |-> JStr("disk"), guid |-> JNum(guid),
        path |-> JStr("/dev/sda1"), state |-> JStr("DEGRADED"),
        parent |-> JStr(parent), alloc_space |-> JNum(Small(7))])

ScanJ ==
  JObj([function |-> JStr("SCRUB"), state |-> JStr("FINISHED"),
        start_time |-> JNum(Small(1)), end_time |-> JNum(Small(2)),
        to_examine |-> JNum(Small(3)), examined |-> JNum(Small(4)),
        skipped |-> JNum(Small(5)), processed |-> JNum(Small(6)),
        errors |-> JNum(Small(7)), bytes_per_scan |-> JNum(Small(8)),
        pass_start |-> JNum(Small(9)), scrub_pause |-> JNum(Small(10)),
        scrub_spent_paused |-> JNum(Small(11)),
        issued_bytes_per_scan |-> JNum(Small(12)), issued |-> JNum(Small(13))])

PoolJ(name, guid, vdevs) ==
  JObj([name |-> JStr(name), state |-> JStr("ONLINE"), pool_guid |-> JNum(guid),
        txg |-> JNum(Small(40)), spa_version |-> JNum(Small(5000)),
        zpl_version |-> JNum(Small(5)), status |-> JStr("healthy"),
        action |-> JStr("none"), moreinfo |-> JStr("https://openzfs.example/msg"),
        scan_stats |-> ScanJ, vdevs |-> vdevs, error_count |-> JStr("0")])

VersionOfJ(cmd) ==
  JObj([command |-> JStr(cmd), major |-> JNum(Small(0)), minor |-> JNum(Small(1))])

StatusJ(pools) == JObj([output_version |-> VersionOfJ("zpool status"), pools |-> pools])

\* pool -> root vdev -> mirror -> {leaf, spare -> leaf}: vdev mappings four deep.
DeepVdevs(g) ==
  JObj([tank |->
    VdevJ("tank", "root", g, "", 0, JObj([mirror0 |->
      VdevJ("mirror-0", "mirror", g, "tank", 1, JObj([
        sda |-> LeafJ("sda", g, "mirror-0"),
        spare1 |-> VdevJ("spare-1", "spare", g, "mirror-0", 2, JObj([
          sdb |-> VdevJ("sdb", "disk", g, "spare-1", 3, JObj(NoFields))]))]))]))])

FiveVdevs ==
  JObj([d1 |-> LeafJ("d1", Small(1), "big"), d2 |-> LeafJ("d2", Small(2), "big"),
        d3 |-> VdevJ("d3", "mirror", Small(3), "big", 4,
                     JObj([d3a |-> LeafJ("d3a", Small(31), "d3")])),
        d4 |-> LeafJ("d4", Small(4), "big"), d5 |-> LeafJ("d5", Small(5), "big")])

\* The documents a child writes in the model. No document holds two keys that
\* select the same struct field, so the order of an object's keys is immaterial.
Documents ==
  << EmptyBytes,
     InvalidBytes,
     JsonBytes(JNull),
     JsonBytes(JNum(Small(5))),
     JsonBytes(JArr),
     \* the tool version envelope, complete and with parts missing or extra
     JsonBytes(JObj([output_version |-> VersionOfJ("zfs version"),
                     zfs_version |-> JObj([userland |-> JStr("zfs-2.2.4"),
                                           kernel |-> JStr("zfs-kmod-2.2.4")])])),
     JsonBytes(JObj([zfs_version |-> JObj([userland |-> JStr("zfs-2.3.0"),
                                           build |-> JStr("x")])])),
     JsonBytes(JObj([zfs_version |-> JObj([userland |-> JNum(Small(2))])])),
     JsonBytes(JObj([zfs_version |-> JStr("zfs-2.2.4")])),
     JsonBytes(JObj([ZFSVersion |-> JObj([Userland |-> JStr("zfs-9")])])),
     \* the pool status envelope
     JsonBytes(StatusJ(JObj([tank |->
        JObj([name |-> JStr("tank"), state |-> JStr("ONLINE"), vdevs |-> JObj(NoFields)])]))),
     JsonBytes(StatusJ(JObj([tank |-> PoolJ("tank", Small(77), DeepVdevs(Small(9)))]))),
     JsonBytes(StatusJ(JObj([big |-> PoolJ("big", MaxInt64, FiveVdevs),
                             tank |-> PoolJ("tank", Small(1), JObj(NoFields))]))),
     JsonBytes(StatusJ(JObj([tank |-> PoolJ("tank", TwoTo63, DeepVdevs(Small(9)))]))),
     JsonBytes(StatusJ(JObj([tank |-> PoolJ("tank", Small(77), DeepVdevs(MaxUint64))]))),
     JsonBytes(StatusJ(JObj([tank |-> PoolJ("tank", Small(77), JNum(Small(5)))]))),
     JsonBytes(StatusJ(JArr)) >>

\* The length of a primary output in pipe units.
Units(data) ==
  IF data.syntax = "empty" THEN 0
  ELSE IF data.syntax = "json" /\ data.v.t = "obj" THEN 2 ELSE 1

Chars == {" ", "e"}
RECURSIVE Texts(_)
Texts(n) ==
  IF n = 0 THEN {<< >>}
  ELSE Texts(n - 1) \cup {Append(t, c) : t \in Texts(n - 1), c \in Chars}

\* ------------------------------------------------------------- state

VARIABLES
  fn,          \* the query function being run
  stdoutData,  \* what this call's child writes to its primary output: an index
               \* into Documents (0 while there is no child)
  stderrData,  \* what this call's child writes to its diagnostic output
  exitCode,    \* the child's exit status
  pc,          \* the statement the function is at
  child,       \* "none", "running" or "exited"
  outLeft,     \* units of stdoutData the child has still to write
  errLeft,     \* characters of stderrData the child has still to write
  outPipe,     \* units in the stdout pipe
  errPipe,     \* characters in the stderr pipe
  stdo,        \* the function's variable stdo, as an index into Documents
  stde,        \* the function's variable stde (what it has read so far)
  waited,      \* cmd.Wait has returned in this call
  log,         \* the records this call handed to logger.Debug
  events,      \* the calls this call has made, in order
  result,      \* the returned pointer
  err,         \* the returned error
  cond,        \* which failure condition this call met ("" for none)
  prev         \* [cond, form] of the last failed call the caller has seen

vars ==
  << fn, stdoutData, stderrData, exitCode, pc, child, outLeft, errLeft, outPipe,
     errPipe, stdo, stde, waited, log, events, result, err, cond, prev >>

\* The state on entry to a query function: no child yet, nothing read.
Init ==
  /\ fn \in Functions
  /\ stdoutData = 0
  /\ stderrData = << >>
  /\ exitCode = 0
  /\ pc = "StdoutPipe"
  /\ child = "none"
  /\ outLeft = 0
  /\ errLeft = << >>
  /\ outPipe = 0
  /\ errPipe = << >>
  /\ stdo = 0
  /\ stde = << >>
  /\ waited = FALSE
  /\ log = << >>
  /\ events = << >>
  /\ result = Nil
  /\ err = NoError
  /\ cond = ""
  /\ prev = [cond |-> "", form |-> "nil"]

Return(r, e, c) ==
  /\ pc' = "returned"
  /\ result' = r
  /\ err' = e
  /\ cond' = c

inputs == << fn, stdoutData, stderrData, exitCode >>
childVars == << child, outLeft, errLeft, outPipe, errPipe >>
outcome == << result, err, cond >>

\* stdout, err := cmd.StdoutPipe(): os.Pipe may fail.
StdoutPipe ==
  /\ pc = "StdoutPipe"
  /\ \/ /\ pc' = "StderrPipe"
        /\ events' = Append(events, "StdoutPipe")
        /\ UNCHANGED outcome
     \/ /\ Return(Nil, PipeError("os.Pipe"), "pipe")
        /\ UNCHANGED events
  /\ UNCHANGED << inputs, childVars, stdo, stde, waited, log, prev >>

\* stderr, err := cmd.StderrPipe()
StderrPipe ==
  /\ pc = "StderrPipe"
  /\ \/ /\ pc' = "Start"
        /\ events' = Append(events, "StderrPipe")
        /\ UNCHANGED outcome
     \/ /\ Return(Nil, PipeError("os.Pipe"), "pipe")
        /\ UNCHANGED events
  /\ UNCHANGED << inputs, childVars, stdo, stde, waited, log, prev >>

\* cmd.Start(): the launch fails and the function returns, or the child runs:
\* what it will write and its exit status are the child's, any of the model's.
Start ==
  /\ pc = "Start"
  /\ \/ /\ pc' = "ReadAllStdout"
        /\ child' = "running"
        /\ events' = Append(events, "Start")
        /\ \E i \in DOMAIN Documents :
             stdoutData' = i /\ outLeft' = Units(Documents[i])
        /\ \E text \in Texts(MaxErrLen) : stderrData' = text /\ errLeft' = text
        /\ exitCode' \in {0, 1}
        /\ UNCHANGED outcome
     \/ /\ Return(Nil, StartError(fn, "exec"), "start")
        /\ UNCHANGED << inputs, child, outLeft, errLeft, events >>
  /\ UNCHANGED << fn, outPipe, errPipe, stdo, stde, waited, log, prev >>

\* A Read on a pipe returns when the pipe holds data or its write end is closed
\* (the child has exited); until then it blocks.
OutReadable == outPipe > 0 \/ child = "exited"
ErrReadable == errPipe /= << >> \/ child = "exited"

\* io.ReadAll(stdout): one Read that returns data.
ReadAllStdout_Read ==
  /\ pc = "ReadAllStdout"
  /\ outPipe > 0
  /\ outPipe' = outPipe - 1
  /\ UNCHANGED << inputs, pc, child, outLeft, errLeft, errPipe, stdo, stde, waited,
                  log, events, outcome, prev >>

\* io.ReadAll(stdout): the Read that returns io.EOF; stdo holds the whole output.
ReadAllStdout_EOF ==
  /\ pc = "ReadAllStdout"
  /\ outPipe = 0 /\ child = "exited"
  /\ stdo' = stdoutData
  /\ events' = Append(events, "ReadStdoutEnd")
  /\ pc' = "DebugStdout"
  /\ UNCHANGED << inputs, childVars, stde, waited, log, outcome, prev >>

\* io.ReadAll(stdout): a Read returns an error; the function returns at once.
ReadAllStdout_Fail ==
  /\ pc = "ReadAllStdout"
  /\ OutReadable
  /\ Return(Nil, ReadError(fn, "read"), "read")
  /\ events' = events \o << "ReadStdoutFail", "ReadStdoutEnd" >>
  /\ UNCHANGED << inputs, childVars, stdo, stde, waited, log, prev >>

\* logger.Debug("ZFS Command Output", "stdout", stdo), then on to the stderr read.
LogStdout ==
  /\ pc = "DebugStdout"
  /\ log' = log \o DebugStdout(fn, Documents[stdo])
  /\ pc' = "ReadAllStderr"
  /\ events' = Append(events, "ReadStderrBegin")
  /\ UNCHANGED << inputs, childVars, stdo, stde, waited, outcome, prev >>

\* io.ReadAll(stderr): one Read that returns data.
ReadAllStderr_Read ==
  /\ pc = "ReadAllStderr"
  /\ errPipe /= << >>
  /\ stde' = Append(stde, Head(errPipe))
  /\ errPipe' = Tail(errPipe)
  /\ UNCHANGED << inputs, pc, child, outLeft, errLeft, outPipe, stdo, waited, log,
                  events, outcome, prev >>

\* io.ReadAll(stderr): the Read that returns io.EOF.
ReadAllStderr_EOF ==
  /\ pc = "ReadAllStderr"
  /\ errPipe = << >> /\ child = "exited"
  /\ pc' = "Wait"
  /\ events' = Append(events, "ReadStderrEnd")
  /\ UNCHANGED << inputs, childVars, stdo, stde, waited, log, outcome, prev >>

\* io.ReadAll(stderr): a Read returns an error, which `stde, _ :=` drops; stde
\* keeps what was read before it.
ReadAllStderr_Fail ==
  /\ pc = "ReadAllStderr"
  /\ ErrReadable
  /\ pc' = "Wait"
  /\ events' = events \o << "ReadStderrFail", "ReadStderrEnd" >>
  /\ UNCHANGED << inputs, childVars, stdo, stde, waited, log, outcome, prev >>

\* cmd.Wait(): blocks until the child has exited, reaps it and closes the pipes;
\* a non-zero exit status is an *exec.ExitError and the function returns.
Wait ==
  /\ pc = "Wait"
  /\ child = "exited"
  /\ waited' = TRUE
  /\ events' = Append(events, "Wait")
  /\ outPipe' = 0
  /\ errPipe' = << >>
  /\ IF exitCode /= 0
       THEN Return(Nil, WaitError(fn, TrimSpace(stde), "ExitError"), "exit")
       ELSE pc' = "Unmarshal" /\ UNCHANGED outcome
  /\ UNCHANGED << inputs, child, outLeft, errLeft, stdo, stde, log, prev >>

\* json.Unmarshal(stdo, &o), the logger.Debug of o, and the return.
UnmarshalAndReturn ==
  /\ pc = "Unmarshal"
  /\ LET u == Unmarshal(Documents[stdo], Target(fn))
     IN  IF u.err /= ""
           THEN Return(Nil, UnmarshalError(fn, u.err), "decode") /\ UNCHANGED log
           ELSE /\ log' = log \o DebugParsed(fn, u.val)
                /\ Return(Ptr(Payload(fn, u.val)), NoError, "")
  /\ UNCHANGED << inputs, childVars, stdo, stde, waited, events, prev >>

\* The child writes one unit to its primary output; blocks while the pipe is full.
ChildWriteStdout ==
  /\ child = "running"
  /\ outLeft > 0
  /\ outPipe < PipeCap
  /\ outLeft' = outLeft - 1
  /\ outPipe' = outPipe + 1
  /\ UNCHANGED << inputs, pc, child, errLeft, errPipe, stdo, stde, waited, log,
                  events, outcome, prev >>

\* The child writes one character to its diagnostic output; blocks while the
\* pipe is full.
ChildWriteStderr ==
  /\ child = "running"
  /\ errLeft /= << >>
  /\ Len(errPipe) < PipeCap
  /\ errLeft' = Tail(errLeft)
  /\ errPipe' = Append(errPipe, Head(errLeft))
  /\ UNCHANGED << inputs, pc, child, outLeft, outPipe, stdo, stde, waited, log,
                  events, outcome, prev >>

\* The child has written everything and exits, which closes its ends of the pipes.
ChildExit ==
  /\ child = "running"
  /\ outLeft = 0 /\ errLeft = << >>
  /\ child' = "exited"
  /\ UNCHANGED << inputs, pc, outLeft, errLeft, outPipe, errPipe, stdo, stde, waited,
                  log, events, outcome, prev >>

\* The caller, after a call has returned, calls a query function again; prev
\* keeps the kind of the last failure it has seen.
NextCall ==
  /\ pc = "returned"
  /\ prev' = IF err = NoError THEN prev ELSE [cond |-> cond, form |-> err.form]
  /\ fn' \in Functions
  /\ stdoutData' = 0
  /\ stderrData' = << >>
  /\ exitCode' = 0
  /\ pc' = "StdoutPipe"
  /\ child' = "none"
  /\ outLeft' = 0
  /\ errLeft' = << >>
  /\ outPipe' = 0
  /\ errPipe' = << >>
  /\ stdo' = 0
  /\ stde' = << >>
  /\ waited' = FALSE
  /\ log' = << >>
  /\ events' = << >>
  /\ result' = Nil
  /\ err' = NoError
  /\ cond' = ""

Query ==
  \/ StdoutPipe \/ StderrPipe \/ Start
  \/ ReadAllStdout_Read \/ ReadAllStdout_EOF \/ ReadAllStdout_Fail
  \/ LogStdout
  \/ ReadAllStderr_Read \/ ReadAllStderr_EOF \/ ReadAllStderr_Fail
  \/ Wait \/ UnmarshalAndReturn

Child == ChildWriteStdout \/ ChildWriteStderr \/ ChildExit

\* One call of a query function.
Next == Query \/ Child

Spec == Init /\ [][Next]_vars

\* A caller that calls the query functions again and again.
NextCalls == Query \/ Child \/ NextCall

SpecCalls == Init /\ [][NextCalls]_vars

\* ------------------------------------------------------------ properties

Happened(e) == \E i \in DOMAIN events : events[i] = e
Pos(e) == CHOOSE i \in DOMAIN events : events[i] = e
Before(a, b) == Happened(a) /\ Happened(b) /\ Pos(a) < Pos(b)

Returned == pc = "returned"
Started == Happened("Start")

\* C1: once the child has started, the query eventually returns whatever the
\* order of the child's writes to its two streams. Stated in the form a finite
\* run refutes: a call whose child has started and which has not returned can
\* always take a step (the function or its child is never stuck for good).
C1_QueryNeverStuck == (Started /\ ~Returned) => ENABLED Next

\* --- C2

White(c) == c = " " \/ c = "\t" \/ c = "\n" \/ c = "\r"

\* out is text without its leading and trailing white space.
IsTrimOf(out, text) ==
  /\ \E i \in 1..(Len(text) + 1), j \in 0..Len(text) :
       /\ out = SubSeq(text, i, j)
       /\ \A k \in 1..(i - 1) : White(text[k])
       /\ \A k \in (j + 1)..Len(text) : White(text[k])
  /\ out /= << >> => ~White(out[1]) /\ ~White(out[Len(out)])

IsPrefix(a, b) == Len(a) <= Len(b) /\ a = SubSeq(b, 1, Len(a))

ExpectedCommand ==
  CASE fn = "ZpoolStatusViaJSON" -> "zpool status --json --json-int"
    [] fn = "GetZFSVersionViaJSON" -> "zfs version --json"
    [] OTHER -> "zpool --json --json-int list -Ho name"

\* C2: a call whose child started, whose primary-output read did not fail and
\* whose child exited non-zero returns nil and the execution error, which
\* carries the command line and the trimmed diagnostic text the function had
\* read (all the child wrote unless the diagnostic read failed, then the part
\* read before the failure), the empty text included.
C2_ExecutionError ==
  (Returned /\ Started /\ ~Happened("ReadStdoutFail") /\ exitCode /= 0) =>
     /\ result = Nil
     /\ err.form = "failed to execute command '%s'; output: '%s' (%w)"
     /\ err.cmd = ExpectedCommand
     /\ err.wrapped = "ExitError"
     /\ IsPrefix(stde, stderrData)
     /\ (~Happened("ReadStderrFail") => stde = stderrData)
     /\ IsTrimOf(err.output, stde)

\* A non-zero exit after a failed diagnostic read that lost part of the text,
\* with white space trimmed off what was read.
C2_Witness ==
  /\ Returned /\ cond = "exit" /\ Happened("ReadStderrFail")
  /\ stde /= stderrData /\ stde /= << >>
  /\ err.output /= stde

\* C8: both pipes are set up before the child is started, cmd.Wait is called
\* only after both reads have ended, and the read of the diagnostic stream
\* begins before the read of the primary stream has ended.
C8_Order ==
  /\ Started => Before("StdoutPipe", "Start") /\ Before("StderrPipe", "Start")
  /\ Happened("Wait") =>
       Before("ReadStdoutEnd", "Wait") /\ Before("ReadStderrEnd", "Wait")
  /\ Happened("ReadStdoutEnd") => Before("ReadStderrBegin", "ReadStdoutEnd")

\* C9: a call that returns after its child was started has called cmd.Wait.
C9_WaitBeforeReturn == (Returned /\ Started) => waited

Conditions == {"start", "read", "exit", "decode"}

\* C4: two calls that fail under different conditions (launch, primary read,
\* non-zero exit, decode) return errors of different forms.
C4_Distinguishable ==
  (Returned /\ cond \in Conditions /\ prev.cond \in Conditions /\ prev.cond /= cond)
     => err.form /= prev.form

\* --- the wire format of the envelopes, as the documentation gives it

VersionStr == {"command"}
VersionNum == {"major", "minor"}
ToolStr == {"userland", "kernel"}
VdevStr ==
  {"name", "vdev_type", "path", "phys_path", "devid", "class", "state", "parent"}
VdevNum ==
  {"guid", "rep_dev_size", "phys_space", "read_errors", "write_errors",
   "checksum_errors", "slow_ios"}
ScanStr == {"function", "state"}
ScanNum ==
  {"start_time", "end_time", "to_examine", "examined", "skipped", "processed",
   "errors", "bytes_per_scan", "pass_start", "scrub_pause", "scrub_spent_paused",
   "issued_bytes_per_scan", "issued"}
PoolStr == {"name", "state", "status", "action", "moreinfo"}
PoolNum == {"pool_guid", "txg", "spa_version", "zpl_version"}

\* A JSON value has the JSON type t; with nullOk a null passes for any type.
HasType(j, t, nullOk) == j.t = t \/ (nullOk /\ j.t = "null")

\* Every known key of obj that is present has the JSON type of its field.
Typed(obj, strKeys, numKeys, nullOk) ==
  \A key \in DOMAIN obj :
     /\ key \in strKeys => HasType(obj[key], "str", nullOk)
     /\ key \in numKeys => HasType(obj[key], "num", nullOk)

\* Key key of obj, if present, is an object whose known keys are typed.
TypedAt(obj, key, strKeys, numKeys, nullOk) ==
  key \in DOMAIN obj =>
     /\ HasType(obj[key], "obj", nullOk)
     /\ obj[key].t = "obj" => Typed(obj[key].f, strKeys, numKeys, nullOk)

RECURSIVE WfVdevs(_, _)
WfVdevs(obj, nullOk) ==
  "vdevs" \in DOMAIN obj =>
     /\ HasType(obj.vdevs, "obj", nullOk)
     /\ obj.vdevs.t = "obj" =>
          \A key \in DOMAIN obj.vdevs.f :
             LET kid == obj.vdevs.f[key]
             IN  /\ HasType(kid, "obj", nullOk)
                 /\ kid.t = "obj" =>
                      Typed(kid.f, VdevStr, VdevNum, nullOk) /\ WfVdevs(kid.f, nullOk)

WfPool(j, nullOk) ==
  /\ HasType(j, "obj", nullOk)
  /\ j.t = "obj" =>
       /\ Typed(j.f, PoolStr, PoolNum, nullOk)
       /\ TypedAt(j.f, "scan_stats", ScanStr, ScanNum, nullOk)
       /\ WfVdevs(j.f, nullOk)

\* data is one JSON object in the shape of the pool status envelope.
WfStatus(data, nullOk) ==
  /\ data.syntax = "json"
  /\ data.v.t = "obj"
  /\ TypedAt(data.v.f, "output_version", VersionStr, VersionNum, nullOk)
  /\ "pools" \in DOMAIN data.v.f =>
       /\ HasType(data.v.f.pools, "obj", nullOk)
       /\ data.v.f.pools.t = "obj" =>
            \A key \in DOMAIN data.v.f.pools.f : WfPool(data.v.f.pools.f[key], nullOk)

\* data is one JSON object in the shape of the tool version envelope.
WfVersion(data, nullOk) ==
  /\ data.syntax = "json"
  /\ data.v.t = "obj"
  /\ TypedAt(data.v.f, "output_version", VersionStr, VersionNum, nullOk)
  /\ TypedAt(data.v.f, "zfs_version", ToolStr, {}, nullOk)

\* The envelope carries zfs_version.userland.
CarriesUserland(data) ==
  /\ WfVersion(data, FALSE)
  /\ "zfs_version" \in DOMAIN data.v.f
  /\ "userland" \in DOMAIN data.v.f.zfs_version.f

\* Empty output, output that is not JSON, or a JSON document in which the
\* document or a field of the function's envelope has an incompatible type.
Malformed(f, data) ==
  \/ data.syntax \in {"empty", "invalid"}
  \/ /\ data.syntax = "json"
     /\ data.v.t /= "null"
     /\ IF f = "ZpoolStatusViaJSON" THEN ~WfStatus(data, TRUE) ELSE ~WfVersion(data, TRUE)

VersionFunctions == {"GetZFSVersionViaJSON", "GetZFSVersion", "GetZFSVersion_0"}
Written == Documents[stdoutData]
ExitedZero == Returned /\ waited /\ exitCode = 0

\* C3: when the child exits 0 and its primary output is empty or malformed, the
\* call returns nil and the decode error, which carries the command line and
\* the parse error; it does not return a payload.
C3_DecodeError ==
  (ExitedZero /\ Malformed(fn, Written)) =>
     /\ result = Nil
     /\ err.form = "failed to read output of '%s'; output: (%w)"
     /\ err.cmd = ExpectedCommand
     /\ err.wrapped \in {"SyntaxError", "UnmarshalTypeError"}

\* C5: a tool version query that succeeds on an envelope carrying
\* zfs_version.userland returns exactly that string.
C5_Userland ==
  (Returned /\ fn \in VersionFunctions /\ err = NoError /\ waited
     /\ CarriesUserland(Written)) =>
     result = Ptr(Written.v.f.zfs_version.f.userland.s)

\* --- the decoded value against the document

StrOf(obj, key) == IF key \in DOMAIN obj THEN obj[key].s ELSE ""
NumOf(obj, key) == IF key \in DOMAIN obj THEN obj[key].n ELSE Small(0)
ObjOf(obj, key) == IF key \in DOMAIN obj THEN obj[key].f ELSE << >>

RECURSIVE VdevIs(_, _)
VdevIs(v, obj) ==
  /\ v.Name = StrOf(obj, "name")
  /\ v.VdevType = StrOf(obj, "vdev_type")
  /\ v.Guid = NumOf(obj, "guid")
  /\ v.Path = StrOf(obj, "path")
  /\ v.PhysPath = StrOf(obj, "phys_path")
  /\ v.Devid = StrOf(obj, "devid")
  /\ v.Class = StrOf(obj, "class")
  /\ v.State = StrOf(obj, "state")
  /\ v.Parent = StrOf(obj, "parent")
  /\ v.RepDevSize = NumOf(obj, "rep_dev_size")
  /\ v.PhysSpace = NumOf(obj, "phys_space")
  /\ v.ReadErrors = NumOf(obj, "read_errors")
  /\ v.WriteErrors = NumOf(obj, "write_errors")
  /\ v.ChecksumErrors = NumOf(obj, "checksum_errors")
  /\ v.SlowIos = NumOf(obj, "slow_ios")
  /\ DOMAIN v.Vdevs = DOMAIN ObjOf(obj, "vdevs")
  /\ \A key \in DOMAIN v.Vdevs : VdevIs(v.Vdevs[key], ObjOf(obj, "vdevs")[key].f)

ScanIs(v, obj) ==
  /\ v.Function = StrOf(obj, "function")
  /\ v.State = StrOf(obj, "state")
  /\ v.StartTime = NumOf(obj, "start_time")
  /\ v.EndTime = NumOf(obj, "end_time")
  /\ v.ToExamine = NumOf(obj, "to_examine")
  /\ v.Examined = NumOf(obj, "examined")
  /\ v.Skipped = NumOf(obj, "skipped")
  /\ v.Processed = NumOf(obj, "processed")
  /\ v.Errors = NumOf(obj, "errors")
  /\ v.BytesPerScan = NumOf(obj, "bytes_per_scan")
  /\ v.PassStart = NumOf(obj, "pass_start")
  /\ v.ScrubPause = NumOf(obj, "scrub_pause")
  /\ v.ScrubSpentPaused = NumOf(obj, "scrub_spent_paused")
  /\ v.IssuedBytesPerScan = NumOf(obj, "issued_bytes_per_scan")
  /\ v.Issued = NumOf(obj, "issued")

PoolIs(v, obj) ==
  /\ v.Name = StrOf(obj, "name")
  /\ v.State = StrOf(obj, "state")
  /\ v.PoolGuid = NumOf(obj, "pool_guid")
  /\ v.Txg = NumOf(obj, "txg")
  /\ v.SpaVersion = NumOf(obj, "spa_version")
  /\ v.ZplVersion = NumOf(obj, "zpl_version")
  /\ v.Status = StrOf(obj, "status")
  /\ v.Action = StrOf(obj, "action")
  /\ v.Moreinfo = StrOf(obj, "moreinfo")
  /\ ScanIs(v.ScanStats, ObjOf(obj, "scan_stats"))
  /\ DOMAIN v.Vdevs = DOMAIN ObjOf(obj, "vdevs")
  /\ \A key \in DOMAIN v.Vdevs : VdevIs(v.Vdevs[key], ObjOf(obj, "vdevs")[key].f)

PoolsWritten == ObjOf(Written.v.f, "pools")

\* C7: a pool status query whose child exits 0 after writing a well-formed
\* envelope returns a pools mapping with the document's pools, every field of
\* every pool, its scan stats and every vdev at every depth equal to the
\* document's; an absent or empty vdevs mapping gives no children, unknown keys
\* are ignored, missing keys give the zero value.
C7_DecodeExact ==
  (ExitedZero /\ fn = "ZpoolStatusViaJSON" /\ WfStatus(Written, FALSE)) =>
     /\ err = NoError
     /\ result /= Nil
     /\ DOMAIN result.v = DOMAIN PoolsWritten
     /\ \A key \in DOMAIN result.v : PoolIs(result.v[key], PoolsWritten[key].f)

RECURSIVE VdevGuidsAre(_, _)
VdevGuidsAre(v, obj) ==
  /\ DOMAIN v = DOMAIN ObjOf(obj, "vdevs")
  /\ \A key \in DOMAIN v :
        /\ v[key].Guid = NumOf(ObjOf(obj, "vdevs")[key].f, "guid")
        /\ VdevGuidsAre(v[key].Vdevs, ObjOf(obj, "vdevs")[key].f)

\* C10: whatever pool_guid and vdev guids in 0..2^64-1 a well-formed envelope
\* holds, the pool status query decodes it and returns those very numbers.
C10_GuidRange ==
  (ExitedZero /\ fn = "ZpoolStatusViaJSON" /\ WfStatus(Written, FALSE)) =>
     /\ err = NoError
     /\ result /= Nil
     /\ \A key \in DOMAIN PoolsWritten :
           /\ key \in DOMAIN result.v
           /\ result.v[key].PoolGuid = NumOf(PoolsWritten[key].f, "pool_guid")
           /\ VdevGuidsAre(result.v[key].Vdevs, PoolsWritten[key].f)

\* The raw document holds the pools mapping, every vdevs mapping expanded.
HoldsTopology(data) ==
  data.syntax = "json" /\ data.v.t = "obj" /\ "pools" \in DOMAIN data.v.f

\* C6: the records a pool status query logs hold no topology: a record is a
\* group of the envelope's scalars with the pools mapping as its count, and the
\* projection of a returned pool holds its vdevs mapping as its count.
C6_LogsSummarize ==
  fn = "ZpoolStatusViaJSON" =>
     /\ \A i \in DOMAIN log :
           /\ log[i].val.kind = "bytes" => ~HoldsTopology(log[i].val.data)
           /\ log[i].val.kind = "group" =>
                /\ DOMAIN log[i].val.attrs =
                     {"output_version.command", "output_version.major",
                      "output_version.minor", "num_pools"}
                /\ log[i].val.attrs["num_pools"] = Cardinality(DOMAIN PoolsWritten)
     /\ (Returned /\ result /= Nil) =>
           \A key \in DOMAIN result.v :
              LET p == PoolStatusT_LogValue(result.v[key])
              IN  /\ DOMAIN p.attrs =
                       {"name", "state", "pool_guid", "txg", "spa_version",
                        "zpl_version", "status", "action", "more_info", "num_vdevs"}
                  /\ p.attrs.num_vdevs =
                       Cardinality(DOMAIN ObjOf(PoolsWritten[key].f, "vdevs"))

====
